---------------------------- MODULE Spec2Model ----------------------------
(***************************************************************************)
(* Model of the upload validation helpers of app/utils/file_validator.py   *)
(* and of the settings they read (app/config.py).                          *)
(*                                                                         *)
(* Strings and byte strings are sequences of code points (0..127), so      *)
(* that lower(), strip(), split(), pathlib's suffix/stem and the magic     *)
(* byte tests are computed character by character as Python (3.11, POSIX   *)
(* flavour of os.path and pathlib) computes them.  Python's None is the    *)
(* one-element sequence NoneStr, which no string equals.                   *)
(*                                                                         *)
(* A function that can raise returns a record [exc, val]: exc = "None"     *)
(* and the value on a normal return, the exception type and its message    *)
(* otherwise.                                                              *)
(***************************************************************************)
EXTENDS Integers, Sequences, FiniteSets, TLC

VARIABLES
    filename,            \* the filename argument
    allowed_extensions,  \* the allowed_extensions argument (list of strings)
    file_size,           \* the file_size argument
    max_size,            \* the max_size argument
    file_content,        \* the file_content argument (bytes)
    settings,            \* app.config.settings: max_upload_size, allowed_extensions
    error,               \* the FileValidationError object raised, if any
    op,                  \* the function the caller calls
    pc,                  \* "start" before the call, "done" after it
    ret                  \* what the call returned or raised

vars == <<filename, allowed_extensions, file_size, max_size, file_content,
          settings, error, op, pc, ret>>

----------------------------------------------------------------------------
(* Python values *)

NoneStr == <<-1>>

Ret(v) == [exc |-> "None", val |-> v]

Raise(e, msg) == [exc |-> e, val |-> msg]

NoCall == [exc |-> "None", val |-> "nothing"]

\* bool(x) is False for None and for the empty string / bytes
Falsy(s) == s = NoneStr \/ s = <<>>

----------------------------------------------------------------------------
(* str methods *)

\* str.lower() on ASCII: 'A'..'Z' (65..90) map to 'a'..'z'
LowerChar(c) == IF c \in 65..90 THEN c + 32 ELSE c

RECURSIVE Lower(_)
Lower(s) == IF s = <<>> THEN <<>> ELSE <<LowerChar(Head(s))>> \o Lower(Tail(s))

\* str.isspace() on ASCII: \t \n \v \f \r, 0x1c..0x1f and ' '
IsSpace(c) == c \in (9..13) \cup (28..32)

RECURSIVE LStrip(_)
LStrip(s) == IF s # <<>> /\ IsSpace(Head(s)) THEN LStrip(Tail(s)) ELSE s

RECURSIVE RStrip(_)
RStrip(s) ==
    IF s # <<>> /\ IsSpace(s[Len(s)]) THEN RStrip(SubSeq(s, 1, Len(s) - 1)) ELSE s

\* str.strip()
Strip(s) == RStrip(LStrip(s))

\* s.find(c) + 1: the first position of character c, 0 when absent
Find(s, c) ==
    IF \E i \in 1..Len(s) : s[i] = c
    THEN CHOOSE i \in 1..Len(s) : s[i] = c /\ \A j \in 1..(i - 1) : s[j] # c
    ELSE 0

\* s.rfind(c) + 1: the last position of character c, 0 when absent
RFind(s, c) ==
    IF \E i \in 1..Len(s) : s[i] = c
    THEN CHOOSE i \in 1..Len(s) : s[i] = c /\ \A j \in (i + 1)..Len(s) : s[j] # c
    ELSE 0

\* pattern in s
Contains(s, pattern) ==
    \E i \in 1..(Len(s) - Len(pattern) + 1) :
        SubSeq(s, i, i + Len(pattern) - 1) = pattern

\* s.startswith(prefix)
StartsWith(s, prefix) ==
    Len(prefix) <= Len(s) /\ SubSeq(s, 1, Len(prefix)) = prefix

\* s.split(sep) for a one-character separator: the list of the fields
RECURSIVE Split(_, _)
Split(s, sep) ==
    LET i == Find(s, sep)
    IN  IF i = 0 THEN <<s>>
        ELSE <<SubSeq(s, 1, i - 1)>> \o Split(SubSeq(s, i + 1, Len(s)), sep)

----------------------------------------------------------------------------
(* os.path and pathlib (POSIX) *)

\* os.path.basename(p): what follows the last '/'
Basename(p) == SubSeq(p, RFind(p, 47) + 1, Len(p))

\* PurePosixPath parsing: the components between '/', with the empty ones
\* and the '.' ones dropped
RECURSIVE DropDots(_)
DropDots(parts) ==
    IF parts = <<>> THEN <<>>
    ELSE IF Head(parts) = <<>> \/ Head(parts) = <<46>> THEN DropDots(Tail(parts))
         ELSE <<Head(parts)>> \o DropDots(Tail(parts))

\* Path(p).name: the final component, '' when there is none
PathName(p) ==
    LET parts == DropDots(Split(p, 47))
    IN  IF parts = <<>> THEN <<>> ELSE parts[Len(parts)]

\* Path(p).suffix: from the last dot of the name, unless that dot is the
\* first or the last character of the name
PathSuffix(p) ==
    LET name == PathName(p)
        i    == RFind(name, 46)
    IN  IF 1 < i /\ i < Len(name) THEN SubSeq(name, i, Len(name)) ELSE <<>>

\* Path(p).stem: the name without its suffix
PathStem(p) ==
    LET name == PathName(p)
        i    == RFind(name, 46)
    IN  IF 1 < i /\ i < Len(name) THEN SubSeq(name, 1, i - 1) ELSE name

----------------------------------------------------------------------------
(* validate_file_extension *)

\* the set comprehension that normalizes the allowed extensions
NormalizeAllowed(allowed) ==
    { IF StartsWith(allowed[k], <<46>>) THEN Lower(allowed[k])
      ELSE <<46>> \o Lower(allowed[k]) : k \in 1..Len(allowed) }

\* validate_file_extension without the .lower() of the extracted suffix
validate_file_extension_case_sensitive(fname, allowed) ==
    IF Falsy(fname) THEN FALSE
    ELSE LET extension == PathSuffix(fname)
         IN  IF extension = <<>> THEN FALSE
             ELSE extension \in NormalizeAllowed(allowed)

validate_file_extension(fname, allowed) ==
    IF Falsy(fname) THEN FALSE
    ELSE LET extension == Lower(PathSuffix(fname))
         IN  IF extension = <<>> THEN FALSE
             ELSE extension \in NormalizeAllowed(allowed)

----------------------------------------------------------------------------
(* validate_file_size *)

\* validate_file_size that tests only file_size for being negative
validate_file_size_unchecked_max(fsize, msize) ==
    IF fsize < 0
    THEN Raise("ValueError", "File sizes cannot be negative")
    ELSE Ret(fsize <= msize)

\* validate_file_size with < for <=
validate_file_size_strict(fsize, msize) ==
    IF fsize < 0 \/ msize < 0
    THEN Raise("ValueError", "File sizes cannot be negative")
    ELSE Ret(fsize < msize)

validate_file_size(fsize, msize) ==
    IF fsize < 0 \/ msize < 0
    THEN Raise("ValueError", "File sizes cannot be negative")
    ELSE Ret(fsize <= msize)

----------------------------------------------------------------------------
(* is_safe_filename *)

dangerous_patterns ==
    << <<46, 46>>, <<46, 46, 47>>, <<46, 46, 92>>,   \* '..', '../', '..\'
       <<0>>,                                        \* null byte
       <<60>>, <<62>>, <<58>>, <<34>>,               \* '<', '>', ':', '"'
       <<124>>, <<63>>, <<42>> >>                    \* '|', '?', '*'

reserved_names ==
    { <<99, 111, 110>>, <<112, 114, 110>>,           \* con, prn
      <<97, 117, 120>>, <<110, 117, 108>> }          \* aux, nul
    \cup { <<99, 111, 109, d>> : d \in 49..57 }      \* com1..com9
    \cup { <<108, 112, 116, d>> : d \in 49..57 }     \* lpt1..lpt9

\* is_safe_filename without the .lower() of the stem
is_safe_filename_case_sensitive(fname) ==
    IF Falsy(fname) THEN FALSE
    ELSE IF Basename(fname) # fname THEN FALSE
    ELSE IF \E k \in 1..Len(dangerous_patterns) :
                Contains(Lower(fname), dangerous_patterns[k]) THEN FALSE
    ELSE IF PathStem(fname) \in reserved_names THEN FALSE
    ELSE TRUE

is_safe_filename(fname) ==
    IF Falsy(fname) THEN FALSE
    ELSE IF Basename(fname) # fname THEN FALSE
    ELSE IF \E k \in 1..Len(dangerous_patterns) :
                Contains(Lower(fname), dangerous_patterns[k]) THEN FALSE
    ELSE IF Lower(PathStem(fname)) \in reserved_names THEN FALSE
    ELSE TRUE

----------------------------------------------------------------------------
(* mimetypes.guess_type (standard library, called at line 140) *)

\* urllib.parse._splittype: '<scheme>:<rest>' when a ':' follows one or more
\* characters other than '/' and ':'; the scheme is lowercased
SplitType(url) ==
    LET i == Find(url, 58)
    IN  IF i > 1 /\ \A j \in 1..(i - 1) : url[j] # 47
        THEN <<Lower(SubSeq(url, 1, i - 1)), SubSeq(url, i + 1, Len(url))>>
        ELSE <<NoneStr, url>>

\* posixpath.splitext: <<root, ext>>; ext starts at the last dot of the last
\* component unless only dots precede it there
SplitExt(p) ==
    LET sep == RFind(p, 47)
        dot == RFind(p, 46)
    IN  IF dot > sep /\ \E j \in (sep + 1)..(dot - 1) : p[j] # 46
        THEN <<SubSeq(p, 1, dot - 1), SubSeq(p, dot, Len(p))>>
        ELSE <<p, <<>>>>

\* the entries of mimetypes' tables that the model keeps
suffix_map == [ext \in {<<46, 116, 103, 122>>} |->   \* '.tgz' -> '.tar.gz'
                 <<46, 116, 97, 114, 46, 103, 122>>]

encodings_map == {<<46, 103, 122>>}                  \* '.gz' (-> 'gzip')

APPLICATION_PDF ==
    <<97, 112, 112, 108, 105, 99, 97, 116, 105, 111, 110, 47, 112, 100, 102>>

APPLICATION_ZIP ==
    <<97, 112, 112, 108, 105, 99, 97, 116, 105, 111, 110, 47, 122, 105, 112>>

APPLICATION_OCTET_STREAM ==
    <<97, 112, 112, 108, 105, 99, 97, 116, 105, 111, 110, 47, 111, 99, 116,
      101, 116, 45, 115, 116, 114, 101, 97, 109>>

TEXT_PLAIN == <<116, 101, 120, 116, 47, 112, 108, 97, 105, 110>>

APPLICATION_X_TAR ==
    <<97, 112, 112, 108, 105, 99, 97, 116, 105, 111, 110, 47, 120, 45, 116,
      97, 114>>

types_map ==
    (<<46, 112, 100, 102>> :> APPLICATION_PDF)       \* '.pdf'
    @@ (<<46, 116, 120, 116>> :> TEXT_PLAIN)         \* '.txt'
    @@ (<<46, 122, 105, 112>> :> APPLICATION_ZIP)    \* '.zip'
    @@ (<<46, 116, 97, 114>> :> APPLICATION_X_TAR)   \* '.tar'

\* the while loop over suffix_map
RECURSIVE ApplySuffixMap(_)
ApplySuffixMap(be) ==
    IF Lower(be[2]) \in DOMAIN suffix_map
    THEN ApplySuffixMap(SplitExt(be[1] \o suffix_map[Lower(be[2])]))
    ELSE be

\* the type of a 'data:' URL, url being what follows the scheme
DataUrlType(url) ==
    LET comma == Find(url, 44)
        semi  == IF comma = 0 THEN 0 ELSE Find(SubSeq(url, 1, comma - 1), 59)
        type  == IF semi > 0 THEN SubSeq(url, 1, semi - 1)
                 ELSE SubSeq(url, 1, comma - 1)
    IN  IF comma = 0 THEN NoneStr
        ELSE IF Find(type, 61) > 0 \/ Find(type, 47) = 0 THEN TEXT_PLAIN
        ELSE type

\* guess_type(url)[0]: the MIME type, NoneStr when it cannot be guessed
guess_type(url) ==
    IF url = NoneStr
    THEN Raise("TypeError", "expected str, bytes or os.PathLike object, not NoneType")
    ELSE LET st == SplitType(url)
         IN  IF st[1] = <<100, 97, 116, 97>>         \* scheme == 'data'
             THEN Ret(DataUrlType(st[2]))
             ELSE LET be1 == ApplySuffixMap(SplitExt(st[2]))
                      be2 == IF be1[2] \in encodings_map
                             THEN SplitExt(be1[1]) ELSE be1
                      ext == Lower(be2[2])
                  IN  IF ext \in DOMAIN types_map
                      THEN Ret(types_map[ext])
                      ELSE Ret(NoneStr)

----------------------------------------------------------------------------
(* validate_file_type *)

PDF_MAGIC == <<37, 80, 68, 70>>                      \* b'%PDF'

ZIP_MAGIC == <<80, 75, 3, 4>>                        \* b'PK\x03\x04'

\* the fallback on the first bytes of the content
SniffContent(content) ==
    IF StartsWith(content, PDF_MAGIC) THEN APPLICATION_PDF
    ELSE IF StartsWith(content, ZIP_MAGIC) THEN APPLICATION_ZIP
    ELSE APPLICATION_OCTET_STREAM

\* validate_file_type that sniffs the content before it consults the
\* filename, as its comment "Try content-based detection first" reads
validate_file_type_content_first(content, fname) ==
    IF Falsy(content) THEN Raise("ValueError", "File content cannot be empty")
    ELSE LET guess == guess_type(fname)
         IN  IF guess.exc # "None" THEN guess
             ELSE IF SniffContent(content) # APPLICATION_OCTET_STREAM
                  THEN Ret(SniffContent(content))
             ELSE Ret(IF Falsy(guess.val) THEN APPLICATION_OCTET_STREAM
                      ELSE guess.val)

\* validate_file_type that rejects empty content only once the filename
\* lookup has failed
validate_file_type_lookup_first(content, fname) ==
    LET guess == guess_type(fname)
    IN  IF guess.exc # "None" THEN guess
        ELSE IF ~Falsy(guess.val) THEN guess
        ELSE IF Falsy(content)
             THEN Raise("ValueError", "File content cannot be empty")
        ELSE Ret(SniffContent(content))

validate_file_type(content, fname) ==
    IF Falsy(content) THEN Raise("ValueError", "File content cannot be empty")
    ELSE LET guess == guess_type(fname)
         IN  IF guess.exc # "None" THEN guess
             ELSE LET mime_type == IF Falsy(guess.val) THEN SniffContent(content)
                                   ELSE guess.val
                  IN  Ret(IF Falsy(mime_type) THEN APPLICATION_OCTET_STREAM
                          ELSE mime_type)

----------------------------------------------------------------------------
(* app.config.Settings *)

DEFAULT_ALLOWED_EXTENSIONS ==                        \* "pdf,docx,doc,txt"
    <<112, 100, 102, 44, 100, 111, 99, 120, 44, 100, 111, 99, 44, 116, 120, 116>>

DEFAULT_MAX_UPLOAD_SIZE == 104857600

\* [ext.strip().lower() for ext in self.allowed_extensions.split(",")]
get_allowed_extensions_list(s) ==
    LET parts == Split(s.allowed_extensions, 44)
    IN  [k \in 1..Len(parts) |-> Lower(Strip(parts[k]))]

----------------------------------------------------------------------------
(* get_file_size_mb, and the '.2f' formatting of its result *)

MB == 1024 * 1024

\* file_size_bytes / (1024 * 1024): the float is the exact quotient (a
\* division by a power of two), kept here as the fraction num / den
get_file_size_mb(file_size_bytes) ==
    IF file_size_bytes < 0
    THEN Raise("ValueError", "File size cannot be negative")
    ELSE Ret([num |-> file_size_bytes, den |-> MB])

\* str(n) for n >= 0
RECURSIVE IntToStr(_)
IntToStr(n) ==
    IF n < 10 THEN <<48 + n>> ELSE IntToStr(n \div 10) \o <<48 + (n % 10)>>

\* f"{x:.2f}" for x = mb.num / mb.den >= 0: two decimals, the exact value
\* rounded half to even
Format2f(mb) ==
    LET whole  == mb.num \div mb.den
        frac   == mb.num % mb.den
        q      == (100 * frac) \div mb.den
        r      == (100 * frac) % mb.den
        cents  == IF 2 * r > mb.den \/ (2 * r = mb.den /\ q % 2 = 1)
                  THEN q + 1 ELSE q
        units  == IF cents = 100 THEN whole + 1 ELSE whole
        digits == IF cents = 100 THEN 0 ELSE cents
    IN  IntToStr(units) \o <<46>> \o <<48 + (digits \div 10), 48 + (digits % 10)>>

----------------------------------------------------------------------------
(* get_file_validation_config *)

get_file_validation_config(s) ==
    LET mb == get_file_size_mb(s.max_upload_size)
    IN  IF mb.exc # "None" THEN mb
        ELSE Ret([max_upload_size    |-> s.max_upload_size,
                  max_upload_size_mb |-> mb.val,
                  allowed_extensions |-> get_allowed_extensions_list(s),
                  upload_dir         |-> s.upload_dir])

----------------------------------------------------------------------------
(* validate_file_comprehensive *)

\* An error message is the text of its (f-)string with the interpolated
\* values beside it.
Message(fmt, args) == [fmt |-> fmt, args |-> args]

\* d[key] = value on a dict
SetItem(d, key, value) == (key :> value) @@ d

\* results["details"][key] = value
SetDetail(results, key, value) ==
    [results EXCEPT !.details = SetItem(@, key, value)]

\* errors.append(msg)
AddError(results, msg) == [results EXCEPT !.errors = Append(@, msg)]

\* 1. Filename safety check
CheckFilenameSafe(results, fname) ==
    LET filename_safe == is_safe_filename(fname)
        r1 == SetDetail(results, "filename_safe", filename_safe)
    IN  IF ~filename_safe
        THEN AddError(r1, Message("Filename contains unsafe characters or path traversal", <<>>))
        ELSE r1

\* 2. Extension validation (validate_file_extension raises nothing on a
\* str or None filename, so the except branch is not taken)
CheckExtension(results, fname, config) ==
    LET extension_valid == validate_file_extension(fname, config.allowed_extensions)
        r1 == SetDetail(results, "extension_valid", extension_valid)
    IN  IF ~extension_valid
        THEN AddError(r1, Message("File extension not allowed. Allowed: {}",
                                  <<config.allowed_extensions>>))
        ELSE r1

\* 3. Size validation
CheckSize(results, fsize, config) ==
    LET size   == validate_file_size(fsize, config.max_upload_size)
        mb     == get_file_size_mb(fsize)
        failed(r, e) ==
            AddError(SetDetail(r, "size_valid", FALSE),
                     Message("Size validation failed: {}", <<e.val>>))
    IN  IF size.exc # "None" THEN failed(results, size)
        ELSE LET r1 == SetDetail(results, "size_valid", size.val)
             IN  IF mb.exc # "None" THEN failed(r1, mb)
                 ELSE LET r2 == SetDetail(r1, "file_size_mb", mb.val)
                          r3 == SetDetail(r2, "max_size_mb", config.max_upload_size_mb)
                      IN  IF ~size.val
                          THEN AddError(r3, Message("File size {:.2f}MB exceeds maximum {:.2f}MB",
                                   <<Format2f(mb.val), Format2f(config.max_upload_size_mb)>>))
                          ELSE r3

\* the type check skipped once an earlier check has failed (fail-fast)
CheckType_fail_fast(results, content, fname) ==
    LET detected == validate_file_type(content, fname)
    IN  IF results.errors # <<>> THEN results
        ELSE IF detected.exc = "None"
        THEN SetDetail(SetDetail(results, "detected_type", detected.val),
                       "type_valid", TRUE)
        ELSE AddError(SetDetail(SetDetail(results, "type_valid", FALSE),
                                "detected_type", NoneStr),
                      Message("File type detection failed: {}", <<detected.val>>))

\* the type check whose except branch forgets errors.append
CheckType_silent(results, content, fname) ==
    LET detected == validate_file_type(content, fname)
    IN  IF detected.exc = "None"
        THEN SetDetail(SetDetail(results, "detected_type", detected.val),
                       "type_valid", TRUE)
        ELSE SetDetail(SetDetail(results, "type_valid", FALSE),
                       "detected_type", NoneStr)

\* 4. File type detection
CheckType(results, content, fname) ==
    LET detected == validate_file_type(content, fname)
    IN  IF detected.exc = "None"
        THEN SetDetail(SetDetail(results, "detected_type", detected.val),
                       "type_valid", TRUE)
        ELSE AddError(SetDetail(SetDetail(results, "type_valid", FALSE),
                                "detected_type", NoneStr),
                      Message("File type detection failed: {}", <<detected.val>>))

validate_file_comprehensive(content, fname, fsize, s) ==
    LET config == get_file_validation_config(s)
    IN  IF config.exc # "None" THEN config      \* raised outside any try
        ELSE LET r0 == [valid |-> TRUE, errors |-> <<>>, details |-> <<>>]
                 r1 == CheckFilenameSafe(r0, fname)
                 r2 == CheckExtension(r1, fname, config.val)
                 r3 == CheckSize(r2, fsize, config.val)
                 r4 == CheckType(r3, content, fname)
             IN  Ret([r4 EXCEPT !.valid = (Len(r4.errors) = 0)])

----------------------------------------------------------------------------
(* The FileValidationError hierarchy.  An error object is the record of   *)
(* its attributes; cls names its class.  The optional error_code is <<>>   *)
(* for None and <<code>> for a string.                                     *)

\* sep.join(list)
RECURSIVE Join(_, _)
Join(sep, list) ==
    IF list = <<>> THEN <<>>
    ELSE IF Len(list) = 1 THEN list[1]
    ELSE list[1] \o sep \o Join(sep, Tail(list))

FileValidationError(message, fname, error_code) ==
    [cls         |-> "FileValidationError",
     message     |-> message,
     filename    |-> fname,
     error_code  |-> error_code,
     status_code |-> 400]

InvalidFileExtensionError(fname, actual_extension, allowed) ==
    LET dotted  == [k \in 1..Len(allowed) |-> <<46>> \o allowed[k]]
        message == Message("File extension '.{}' is not allowed. Allowed extensions: {}",
                           <<actual_extension, Join(<<44, 32>>, dotted)>>)
        base    == FileValidationError(message, fname, <<"INVALID_FILE_EXTENSION">>)
    IN  [cls                |-> "InvalidFileExtensionError",
         message            |-> base.message,
         filename           |-> base.filename,
         error_code         |-> base.error_code,
         status_code        |-> base.status_code,
         actual_extension   |-> actual_extension,
         allowed_extensions |-> allowed]

\* FileTooLargeError that keeps the base class's status code
FileTooLargeError_default_status(fname, fsize, msize) ==
    LET message == Message("File size {:.2f}MB exceeds maximum allowed size {:.2f}MB",
                           <<Format2f([num |-> fsize, den |-> MB]),
                             Format2f([num |-> msize, den |-> MB])>>)
        base    == FileValidationError(message, fname, <<"FILE_TOO_LARGE">>)
    IN  [cls         |-> "FileTooLargeError",
         message     |-> base.message,
         filename    |-> base.filename,
         error_code  |-> base.error_code,
         status_code |-> base.status_code,
         file_size   |-> fsize,
         max_size    |-> msize]

FileTooLargeError(fname, fsize, msize) ==
    LET message == Message("File size {:.2f}MB exceeds maximum allowed size {:.2f}MB",
                           <<Format2f([num |-> fsize, den |-> MB]),
                             Format2f([num |-> msize, den |-> MB])>>)
        base    == FileValidationError(message, fname, <<"FILE_TOO_LARGE">>)
    IN  [cls         |-> "FileTooLargeError",
         message     |-> base.message,
         filename    |-> base.filename,
         error_code  |-> base.error_code,
         status_code |-> 413,                        \* Payload Too Large
         file_size   |-> fsize,
         max_size    |-> msize]

\* supported_types is a list; the default None acts as the empty list
UnsupportedFileTypeError(fname, detected_type, supported_types) ==
    LET message == IF supported_types # <<>>
                   THEN Message("Unsupported file type: {}. Supported types: {}",
                                <<detected_type, Join(<<44, 32>>, supported_types)>>)
                   ELSE Message("Unsupported file type: {}", <<detected_type>>)
        base    == FileValidationError(message, fname, <<"UNSUPPORTED_FILE_TYPE">>)
    IN  [cls             |-> "UnsupportedFileTypeError",
         message         |-> base.message,
         filename        |-> base.filename,
         error_code      |-> base.error_code,
         status_code     |-> 415,                    \* Unsupported Media Type
         detected_type   |-> detected_type,
         supported_types |-> supported_types]

\* self.error_code or "FILE_VALIDATION_ERROR"
ErrorCodeOrDefault(error_code) ==
    IF error_code = <<>> \/ error_code = <<"">> THEN "FILE_VALIDATION_ERROR"
    ELSE error_code[1]

\* FileValidationError.to_dict
base_to_dict(e) ==
    ("error" :> ErrorCodeOrDefault(e.error_code))
    @@ ("message" :> e.message)
    @@ ("filename" :> e.filename)
    @@ ("status_code" :> e.status_code)

\* the to_dict of the object's class: the subclasses update the base dict
to_dict(e) ==
    CASE e.cls = "InvalidFileExtensionError" ->
            SetItem(SetItem(base_to_dict(e),
                "actual_extension", e.actual_extension),
                "allowed_extensions", e.allowed_extensions)
      [] e.cls = "FileTooLargeError" ->
            SetItem(SetItem(SetItem(SetItem(base_to_dict(e),
                "file_size_bytes", e.file_size),
                "max_size_bytes", e.max_size),
                "file_size_mb", [num |-> e.file_size, den |-> MB]),
                "max_size_mb", [num |-> e.max_size, den |-> MB])
      [] e.cls = "UnsupportedFileTypeError" ->
            SetItem(SetItem(base_to_dict(e),
                "detected_type", e.detected_type),
                "supported_types", e.supported_types)
      [] OTHER -> base_to_dict(e)

----------------------------------------------------------------------------
(* Inputs *)

\* the strings made of at most n tokens of T
RECURSIVE Words(_, _)
Words(T, n) ==
    IF n = 0 THEN {<<>>}
    ELSE LET W == Words(T, n - 1) IN W \cup {w \o t : w \in W, t \in T}

\* the lists of at most n elements of S
RECURSIVE Lists(_, _)
Lists(S, n) ==
    IF n = 0 THEN {<<>>}
    ELSE LET L == Lists(S, n - 1) IN L \cup {Append(l, x) : l \in L, x \in S}

REPORT_PDF == <<114, 101, 112, 111, 114, 116, 46, 112, 100, 102>>

CON_TXT == <<99, 111, 110, 46, 116, 120, 116>>

ETC_PASSWD == <<46, 46, 47, 101, 116, 99, 47, 112, 97, 115, 115, 119, 100>>

MaxExtTokens == 3

MaxAllowed == 2

\* 'a', '.', '/', '.pdf', '.PDF', 'txt'
ExtTokens ==
    {<<97>>, <<46>>, <<47>>, <<46, 112, 100, 102>>, <<46, 80, 68, 70>>,
     <<116, 120, 116>>}

ExtFilenames == Words(ExtTokens, MaxExtTokens) \cup {NoneStr, REPORT_PDF}

\* 'pdf', '.PDF', 'Txt', '.'
AllowedEntries == {<<112, 100, 102>>, <<46, 80, 68, 70>>, <<84, 120, 116>>, <<46>>}

AllowedLists == Lists(AllowedEntries, MaxAllowed)

MaxSize == 3

SizeValues ==
    ((0 - 2)..MaxSize)
    \cup {DEFAULT_MAX_UPLOAD_SIZE - 1, DEFAULT_MAX_UPLOAD_SIZE,
          DEFAULT_MAX_UPLOAD_SIZE + 1}

MaxSafeTokens == 3

\* 'con', 'LPT1', 'a', '.', '.txt', '/', then the null byte and
\* '<', '>', ':', '"', '|', '?', '*'
SafeTokens ==
    {<<99, 111, 110>>, <<76, 80, 84, 49>>, <<97>>, <<46>>, <<46, 116, 120, 116>>,
     <<47>>, <<0>>, <<60>>, <<62>>, <<58>>, <<34>>, <<124>>, <<63>>, <<42>>}

SafeFilenames ==
    Words(SafeTokens, MaxSafeTokens) \cup {NoneStr, REPORT_PDF, CON_TXT, ETC_PASSWD}

MaxTypeTokens == 3

MaxContentTokens == 2

\* 'a', '.pdf', '.gz', '/', 'data:', ','
TypeTokens ==
    {<<97>>, <<46, 112, 100, 102>>, <<46, 103, 122>>, <<47>>,
     <<100, 97, 116, 97, 58>>, <<44>>}

TypeFilenames == Words(TypeTokens, MaxTypeTokens) \cup {NoneStr, REPORT_PDF}

\* b'%PDF', b'PK', b'\x03\x04', b'x'
ContentTokens == {PDF_MAGIC, <<80, 75>>, <<3, 4>>, <<120>>}

Contents == Words(ContentTokens, MaxContentTokens)

MaxCompTokens == 2

\* 'report', 'con', '.pdf', '.TXT', '.', '/'
CompTokens ==
    {<<114, 101, 112, 111, 114, 116>>, <<99, 111, 110>>, <<46, 112, 100, 102>>,
     <<46, 84, 88, 84>>, <<46>>, <<47>>}

CompFilenames == Words(CompTokens, MaxCompTokens) \cup {NoneStr}

CompContents == {<<>>, PDF_MAGIC, <<120>>}

\* the environment's ALLOWED_EXTENSIONS: the default, 'PDF , .txt' and ''
AllowedExtensionsSettings ==
    {DEFAULT_ALLOWED_EXTENSIONS,
     <<80, 68, 70, 32, 44, 32, 46, 116, 120, 116>>,
     <<>>}

SettingsValues ==
    [max_upload_size    : {0 - 1, 0, 1, DEFAULT_MAX_UPLOAD_SIZE},
     allowed_extensions : AllowedExtensionsSettings,
     upload_dir         : {"uploads"}]

DefaultSettings ==
    [max_upload_size    |-> DEFAULT_MAX_UPLOAD_SIZE,
     allowed_extensions |-> DEFAULT_ALLOWED_EXTENSIONS,
     upload_dir         |-> "uploads"]

NoError == [cls |-> "None"]

ErrFilenames == {NoneStr, <<>>, REPORT_PDF}

\* messages and codes a caller gives a plain FileValidationError
ErrMessages == {Message("", <<>>), Message("bad upload", <<>>)}

ErrCodes == {<<>>, <<"">>, <<"CUSTOM_CODE">>}

\* 'exe', ''
ErrExtensions == {<<101, 120, 101>>, <<>>}

ErrSizes == {n \in SizeValues : n >= 0}

ErrTypeLists == Lists({APPLICATION_PDF, TEXT_PLAIN}, MaxAllowed)

----------------------------------------------------------------------------
(* The calls.  Each specification draws the arguments of one function in  *)
(* its initial state and applies the function to them.                     *)

args == <<filename, allowed_extensions, file_size, max_size, file_content,
          settings, op>>

InitWith(o, f, a, fs, ms, c, s) ==
    /\ op = o
    /\ filename = f
    /\ allowed_extensions = a
    /\ file_size = fs
    /\ max_size = ms
    /\ file_content = c
    /\ settings = s
    /\ error = NoError
    /\ pc = "start"
    /\ ret = NoCall

InitExt ==
    \E f \in ExtFilenames, a \in AllowedLists :
        InitWith("validate_file_extension", f, a, 0, 0, <<>>, DefaultSettings)

CallValidateFileExtension ==
    /\ op = "validate_file_extension"
    /\ pc = "start"
    /\ ret' = Ret(validate_file_extension(filename, allowed_extensions))
    /\ pc' = "done"
    /\ UNCHANGED <<args, error>>

SpecExt == InitExt /\ [][CallValidateFileExtension]_vars

InitSize ==
    \E fs \in SizeValues, ms \in SizeValues :
        InitWith("validate_file_size", <<>>, <<>>, fs, ms, <<>>, DefaultSettings)

CallValidateFileSize ==
    /\ op = "validate_file_size"
    /\ pc = "start"
    /\ ret' = validate_file_size(file_size, max_size)
    /\ pc' = "done"
    /\ UNCHANGED <<args, error>>

SpecSize == InitSize /\ [][CallValidateFileSize]_vars

InitSafe ==
    \E f \in SafeFilenames :
        InitWith("is_safe_filename", f, <<>>, 0, 0, <<>>, DefaultSettings)

CallIsSafeFilename ==
    /\ op = "is_safe_filename"
    /\ pc = "start"
    /\ ret' = Ret(is_safe_filename(filename))
    /\ pc' = "done"
    /\ UNCHANGED <<args, error>>

SpecSafe == InitSafe /\ [][CallIsSafeFilename]_vars

InitType ==
    \E f \in TypeFilenames, c \in Contents :
        InitWith("validate_file_type", f, <<>>, 0, 0, c, DefaultSettings)

CallValidateFileType ==
    /\ op = "validate_file_type"
    /\ pc = "start"
    /\ ret' = validate_file_type(file_content, filename)
    /\ pc' = "done"
    /\ UNCHANGED <<args, error>>

SpecType == InitType /\ [][CallValidateFileType]_vars

InitComp ==
    \E f \in CompFilenames, c \in CompContents, fs \in SizeValues,
       s \in SettingsValues :
        InitWith("validate_file_comprehensive", f, <<>>, fs, 0, c, s)

CallValidateFileComprehensive ==
    /\ op = "validate_file_comprehensive"
    /\ pc = "start"
    /\ ret' = validate_file_comprehensive(file_content, filename, file_size, settings)
    /\ pc' = "done"
    /\ UNCHANGED <<args, error>>

SpecComp == InitComp /\ [][CallValidateFileComprehensive]_vars

\* An error is constructed (pc = "raised"), then serialized for the API
\* response (pc = "done").
InitErr == InitWith("to_dict", <<>>, <<>>, 0, 0, <<>>, DefaultSettings)

NewFileValidationError ==
    /\ op = "to_dict"
    /\ pc = "start"
    /\ \E m \in ErrMessages, f \in ErrFilenames, c \in ErrCodes :
            error' = FileValidationError(m, f, c)
    /\ pc' = "raised"
    /\ UNCHANGED <<args, ret>>

NewInvalidFileExtensionError ==
    /\ op = "to_dict"
    /\ pc = "start"
    /\ \E f \in ErrFilenames, x \in ErrExtensions, a \in AllowedLists :
            error' = InvalidFileExtensionError(f, x, a)
    /\ pc' = "raised"
    /\ UNCHANGED <<args, ret>>

NewFileTooLargeError ==
    /\ op = "to_dict"
    /\ pc = "start"
    /\ \E f \in ErrFilenames, fs \in ErrSizes, ms \in ErrSizes :
            error' = FileTooLargeError(f, fs, ms)
    /\ pc' = "raised"
    /\ UNCHANGED <<args, ret>>

NewUnsupportedFileTypeError ==
    /\ op = "to_dict"
    /\ pc = "start"
    /\ \E f \in ErrFilenames, t \in {APPLICATION_ZIP, APPLICATION_OCTET_STREAM},
          l \in ErrTypeLists :
            error' = UnsupportedFileTypeError(f, t, l)
    /\ pc' = "raised"
    /\ UNCHANGED <<args, ret>>

ToDict ==
    /\ op = "to_dict"
    /\ pc = "raised"
    /\ ret' = Ret(to_dict(error))
    /\ pc' = "done"
    /\ UNCHANGED <<args, error>>

NextErr ==
    \/ NewFileValidationError
    \/ NewInvalidFileExtensionError
    \/ NewFileTooLargeError
    \/ NewUnsupportedFileTypeError
    \/ ToDict

SpecErr == InitErr /\ [][NextErr]_vars

\* every call of the module
Init ==
    \/ InitExt
    \/ InitSize
    \/ InitSafe
    \/ InitType
    \/ InitComp
    \/ InitErr

Next ==
    \/ CallValidateFileExtension
    \/ CallValidateFileSize
    \/ CallIsSafeFilename
    \/ CallValidateFileType
    \/ CallValidateFileComprehensive
    \/ NextErr

Spec == Init /\ [][Next]_vars

----------------------------------------------------------------------------
(* Properties *)

Done(o) == op = o /\ pc = "done"

\* an allowed entry with its leading dot, if any, removed
StripDot(e) == IF e # <<>> /\ e[1] = 46 THEN Tail(e) ELSE e

\* ext (no leading dot) matches an entry of the list, case-insensitively
\* and whether or not the entry has a leading dot
ExtensionAllowed(ext, allowed) ==
    \E k \in 1..Len(allowed) : Lower(StripDot(allowed[k])) = Lower(ext)

\* f[i..j] is the final path component of f: it holds no '/', starts the
\* string or follows a '/', is not '.', and only '/' and '.' components
\* follow it
FinalComponent(f, i, j) ==
    /\ i <= j
    /\ \A m \in i..j : f[m] # 47
    /\ i = 1 \/ f[i - 1] = 47
    /\ SubSeq(f, i, j) # <<46>>
    /\ \A m \in (j + 1)..Len(f) :
          \/ f[m] = 47
          \/ f[m] = 46 /\ f[m - 1] = 47 /\ (m = Len(f) \/ f[m + 1] = 47)

\* C1 as stated: validate_file_extension returns true exactly for the
\* filenames whose text after the last dot is a non-empty extension of the
\* allowed set (case-insensitive, leading dot of an entry optional).
C1_SuffixAfterLastDot ==
    Done("validate_file_extension") =>
        ret.val =
            (/\ ~Falsy(filename)
             /\ RFind(filename, 46) > 0
             /\ LET ext == SubSeq(filename, RFind(filename, 46) + 1, Len(filename))
                IN  ext # <<>> /\ ExtensionAllowed(ext, allowed_extensions))

\* C1 amended: validate_file_extension returns true exactly when the final
\* path component of the filename has a last dot that is neither its first
\* nor its last character and what follows that dot is an extension of the
\* allowed set (case-insensitive, leading dot of an entry optional); it
\* returns false for every other filename, a missing or empty one included.
C1_PathlibSuffixAllowed ==
    Done("validate_file_extension") =>
        ret.val =
            (/\ ~Falsy(filename)
             /\ \E i \in 1..Len(filename), j \in 1..Len(filename) :
                   /\ FinalComponent(filename, i, j)
                   /\ \E d \in (i + 1)..(j - 1) :
                         /\ filename[d] = 46
                         /\ \A m \in (d + 1)..j : filename[m] # 46
                         /\ ExtensionAllowed(SubSeq(filename, d + 1, j),
                                             allowed_extensions))

\* 'a.PDF' is accepted under the allowed list ['pdf']
C1_Witness ==
    /\ Done("validate_file_extension")
    /\ filename = <<97, 46, 80, 68, 70>>
    /\ allowed_extensions = <<<<112, 100, 102>>>>
    /\ ret.val = TRUE

\* C2: for non-negative sizes validate_file_size returns file_size <=
\* max_size (equal sizes accepted); with a negative argument it raises
\* ValueError and returns nothing.
C2_SizeWithinLimit ==
    Done("validate_file_size") =>
        IF file_size >= 0 /\ max_size >= 0
        THEN ret.exc = "None" /\ ret.val = (file_size <= max_size)
        ELSE ret.exc = "ValueError"

\* a file of exactly the maximum size is accepted
C2_Witness ==
    /\ Done("validate_file_size")
    /\ file_size = max_size
    /\ file_size > 0
    /\ ret = Ret(TRUE)

\* the substrings C3 lists: '..', the null byte, '<', '>', ':', '"', '|',
\* '?', '*'
C3_Dangerous ==
    {<<46, 46>>, <<0>>, <<60>>, <<62>>, <<58>>, <<34>>, <<124>>, <<63>>, <<42>>}

\* the name without its last extension, for a name without '/'
C3_Stem(f) ==
    LET dots == {d \in 1..Len(f) : f[d] = 46}
        last == IF dots = {} THEN 0
                ELSE CHOOSE d \in dots : \A e \in dots : e <= d
    IN  IF 1 < last /\ last < Len(f) THEN SubSeq(f, 1, last - 1) ELSE f

C3_Unsafe(f) ==
    \/ Falsy(f)
    \/ \E m \in 1..Len(f) : f[m] = 47
    \/ \E p \in C3_Dangerous : Contains(f, p)
    \/ Lower(C3_Stem(f)) \in reserved_names

\* C3: is_safe_filename returns false exactly for the filenames that are
\* empty, hold a path separator, hold one of the dangerous substrings, or
\* whose stem is a reserved device name in any case; '../etc/passwd' and
\* 'con.txt' are unsafe and 'report.pdf' is safe.
C3_SafeFilename ==
    Done("is_safe_filename") =>
        /\ ret.val = ~C3_Unsafe(filename)
        /\ filename \in {ETC_PASSWD, CON_TXT} => ret.val = FALSE
        /\ filename = REPORT_PDF => ret.val = TRUE

\* 'con.txt' is judged unsafe
C3_Witness ==
    /\ Done("is_safe_filename")
    /\ filename = CON_TXT
    /\ ret.val = FALSE

\* the type the content's first bytes stand for, as C4 states it
C4_ContentType(content) ==
    IF Len(content) >= 4 /\ SubSeq(content, 1, 4) = <<37, 80, 68, 70>>
    THEN APPLICATION_PDF
    ELSE IF Len(content) >= 4 /\ SubSeq(content, 1, 4) = <<80, 75, 3, 4>>
    THEN APPLICATION_ZIP
    ELSE APPLICATION_OCTET_STREAM

C8_EmptyContentRaises ==
    Done("validate_file_type") /\ file_content = <<>> =>
        ret = Raise("ValueError", "File content cannot be empty")

\* empty content under the name 'report.pdf' raises
C8_Witness ==
    /\ Done("validate_file_type")
    /\ file_content = <<>>
    /\ filename = REPORT_PDF
    /\ guess_type(filename).val = APPLICATION_PDF
    /\ ret.exc = "ValueError"

Flags == {"filename_safe", "extension_valid", "size_valid", "type_valid"}

Checks == <<"filename", "extension", "size", "type">>

FlagOf(check) ==
    CASE check = "filename"  -> "filename_safe"
      [] check = "extension" -> "extension_valid"
      [] check = "size"      -> "size_valid"
      [] check = "type"      -> "type_valid"

\* the check an error message reports
CheckOf(msg) ==
    CASE msg.fmt = "Filename contains unsafe characters or path traversal"
            -> "filename"
      [] msg.fmt \in {"File extension not allowed. Allowed: {}",
                      "Extension validation failed: {}"}
            -> "extension"
      [] msg.fmt \in {"File size {:.2f}MB exceeds maximum {:.2f}MB",
                      "Size validation failed: {}"}
            -> "size"
      [] msg.fmt = "File type detection failed: {}"
            -> "type"
      [] OTHER -> "unknown"

Returned(o) == Done(o) /\ ret.exc = "None"

\* C5: a result of validate_file_comprehensive holds the four flags, each
\* the outcome of its own check on the arguments whatever the earlier
\* checks found, and errors holds exactly one message per failed check,
\* in the order filename, extension, size, type.
C5_AllChecksRun ==
    Returned("validate_file_comprehensive") =>
        LET d == ret.val.details
            errs == ret.val.errors
            Failed(check) == ~d[FlagOf(check)]
        IN  /\ Flags \subseteq DOMAIN d
            /\ d["filename_safe"] = is_safe_filename(filename)
            /\ d["extension_valid"] =
                   validate_file_extension(filename, get_allowed_extensions_list(settings))
            /\ d["size_valid"] =
                   (file_size >= 0 /\ file_size <= settings.max_upload_size)
            /\ d["type_valid"] = (validate_file_type(file_content, filename).exc = "None")
            /\ Len(errs) = Len(SelectSeq(Checks, Failed))
            /\ \A k \in 1..Len(errs) : CheckOf(errs[k]) = SelectSeq(Checks, Failed)[k]

\* all four checks fail and all four are reported
C5_Witness ==
    /\ Returned("validate_file_comprehensive")
    /\ Len(ret.val.errors) = 4
    /\ \A k \in 1..4 : CheckOf(ret.val.errors[k]) = Checks[k]

\* C6: validate_file_comprehensive returns a result for every content,
\* filename, file_size and configured upload size limit; a check that
\* raises is reported by its flag set to false and a generic message.
C6_NeverPropagates ==
    Done("validate_file_comprehensive") =>
        /\ ret.exc = "None"
        /\ file_size < 0 =>
              /\ ret.val.details["size_valid"] = FALSE
              /\ \E k \in 1..Len(ret.val.errors) :
                    ret.val.errors[k].fmt = "Size validation failed: {}"
        /\ Falsy(file_content) =>
              /\ ret.val.details["type_valid"] = FALSE
              /\ \E k \in 1..Len(ret.val.errors) :
                    ret.val.errors[k].fmt = "File type detection failed: {}"

\* the extension of a name without '/' (what follows its last dot, a dot
\* that neither starts nor ends the name) is in the configured list
C7_ExtensionConfigured ==
    \E d \in 2..(Len(filename) - 1) :
        /\ filename[d] = 46
        /\ \A m \in (d + 1)..Len(filename) : filename[m] # 46
        /\ ExtensionAllowed(SubSeq(filename, d + 1, Len(filename)),
                            get_allowed_extensions_list(settings))

\* C7: a safe filename with a configured extension, a size from 0 to the
\* configured maximum inclusive and non-empty content validate: valid is
\* true and errors is empty.
C7_GoodUploadValid ==
    /\ Done("validate_file_comprehensive")
    /\ is_safe_filename(filename)
    /\ C7_ExtensionConfigured
    /\ 0 <= file_size /\ file_size <= settings.max_upload_size
    /\ ~Falsy(file_content)
    => /\ ret.exc = "None"
       /\ ret.val.valid = TRUE
       /\ ret.val.errors = <<>>

\* 'report.pdf' of exactly the default maximum size validates under the
\* default settings
C7_Witness ==
    /\ Done("validate_file_comprehensive")
    /\ filename = REPORT_PDF
    /\ settings = DefaultSettings
    /\ file_size = settings.max_upload_size
    /\ file_content = PDF_MAGIC
    /\ ret.exc = "None"
    /\ ret.val.valid = TRUE

\* the code and HTTP status of each class of the hierarchy
C9_Code(e) ==
    CASE e.cls = "InvalidFileExtensionError" -> "INVALID_FILE_EXTENSION"
      [] e.cls = "FileTooLargeError"         -> "FILE_TOO_LARGE"
      [] e.cls = "UnsupportedFileTypeError"  -> "UNSUPPORTED_FILE_TYPE"
      [] e.cls = "FileValidationError"       ->
            IF e.error_code \in {<<>>, <<"">>} THEN "FILE_VALIDATION_ERROR"
            ELSE e.error_code[1]

C9_Status(e) ==
    CASE e.cls = "FileTooLargeError"        -> 413
      [] e.cls = "UnsupportedFileTypeError" -> 415
      [] OTHER                              -> 400

\* C9: to_dict gives every error of the hierarchy a payload whose 'error'
\* is the error's code, whose 'message' and 'filename' are the error's and
\* whose 'status_code' is the status of the error's class.
C9_ErrorPayload ==
    Done("to_dict") =>
        LET payload == ret.val
        IN  /\ {"error", "message", "filename", "status_code"} \subseteq DOMAIN payload
            /\ payload["error"] = C9_Code(error)
            /\ payload["message"] = error.message
            /\ payload["filename"] = error.filename
            /\ payload["status_code"] = C9_Status(error)

\* a too-large error serializes with status 413
C9_Witness ==
    /\ Done("to_dict")
    /\ error.cls = "FileTooLargeError"
    /\ ret.val["error"] = "FILE_TOO_LARGE"
    /\ ret.val["status_code"] = 413

\* C10: in every result of validate_file_comprehensive valid is true iff
\* errors is empty iff the four flags are all true.
C10_ValidIffNoErrors ==
    Returned("validate_file_comprehensive") =>
        LET d == ret.val.details
        IN  /\ Flags \subseteq DOMAIN d
            /\ ret.val.valid = (ret.val.errors = <<>>)
            /\ (ret.val.errors = <<>>) = (\A k \in Flags : d[k] = TRUE)

\* a result that is invalid for its type check alone
C10_Witness ==
    /\ Returned("validate_file_comprehensive")
    /\ ret.val.valid = FALSE
    /\ ret.val.details["filename_safe"]
    /\ ret.val.details["extension_valid"]
    /\ ret.val.details["size_valid"]
    /\ ~ret.val.details["type_valid"]

============================================================================
